---- MODULE Spec2Model ----
(***************************************************************************)
(* Model of the rendering core of basicsynth (src/src/lib.rs): the voice   *)
(* pool of PolyModSynth, Plugin::reset and Plugin::process with its        *)
(* event-driven block splitting and the per-voice render loop.             *)
(*                                                                         *)
(* Reals are modelled by integers: a modulation value is a small integer,  *)
(* the phase is counted in units of 1/One, and a cell of the output buffer *)
(* is the sequence of the terms added into it (one term per contribution,  *)
(* named by the index of the contributing voice), so that "+=" is Append   *)
(* and "fill(0.0)" is the empty sum.                                       *)
(***************************************************************************)
EXTENDS Integers, Sequences, FiniteSets, TLC

\* lib.rs:8
MAX_BLOCK_SIZE == 64

\* Bounds of the model: the longest buffer of a call, and the number of events
\* the host delivers in a run.
MaxSamples == 2
MaxEvents == 2

\* lib.rs:41, 43: the last channel and the last note of the pool.
MAX_CHANNEL == 16
MAX_NOTE == 127

\* The phase value 1.0 in phase units (lib.rs:286).
One == 12

\* The model keeps the voices of two of the 17 channels and of one of the 128
\* notes (lib.rs:41-43), and one sample rate.
Channels == {0, 1}
Notes == {1}
SampleRates == {4}

\* Option::None of `next_event`, and the position of an exhausted voice iterator.
None == [kind |-> "None"]
NoVoice == -1
\* What a cell of the caller's buffer holds before the call: one unknown term.
Stale == -2

Min(a, b) == IF a <= b THEN a ELSE b

\* Mutant of the index: the stride is one short.
VoiceIndexShortStride(channel, note) == (channel * 127) + note

\* lib.rs:175, 314, 333: the index of a voice in `voices`.
VoiceIndex(channel, note) == (channel * 128) + note

Indices == {VoiceIndex(c, n) : c \in Channels, n \in Notes}

\* nih_plug util::midi_note_to_freq as used at lib.rs:47: one frequency per note.
midi_note_to_freq(note) == note + 1

\* lib.rs:37-57: the pool built by Default. The voice collected at position i
\* is the one of the (i mod 128)-th note of the (i div 128)-th channel, each
\* channel contributing one voice per note of 0..=127.
DefaultVoices ==
    [i \in Indices |->
        [active |-> FALSE,
         note |-> i % (MAX_NOTE + 1),
         channel |-> i \div (MAX_NOTE + 1),
         frequency |-> midi_note_to_freq(i % (MAX_NOTE + 1)),
         velocities |-> <<>>,
         pannings |-> <<>>,
         gains |-> <<>>,
         phase |-> 0]]

VARIABLES
    voices,        \* PolyModSynth.voices
    pc,            \* position in process: idle, events, fill, render, done
    num_samples,   \* buffer.samples()
    sample_rate,   \* context.transport().sample_rate
    block_start,
    block_end,
    next_event,
    output,        \* output[c][s], c in 0..1, s in 0..num_samples-1
    vcur,          \* the voice of the sample rendered last in this sub-block
    sample_idx,
    gain, velocity, pan,   \* the values resolved for the current sample
    sent,          \* context.send_event: the notifications of this call
    delivered,     \* history: the events context.next_event() has returned in this call
    applied,       \* history: the events applied in this call, with the samples rendered by then
    blocks,        \* history: the sub-blocks rendered in this call
    active0,       \* history: the voices active when the call began
    nEvents,       \* number of events delivered so far (bounded by host.events)
    resets,        \* number of reset calls in a row just made (capped at 2)
    history,       \* history, per voice: was it ever rendered, and what stopped it last
    host           \* what the host does in this run: the inputs it draws from

vars == <<voices, pc, num_samples, sample_rate, block_start, block_end, next_event,
          output, vcur, sample_idx, gain, velocity, pan, sent, delivered, applied,
          blocks, active0, nEvents, resets, history, host>>

EventKinds == {"NoteOn", "NoteOff", "PolyPressure", "PolyVolume", "PolyPan", "Choke", "PolyTuning"}
ValueKinds == {"NoteOn", "PolyPressure", "PolyVolume", "PolyPan"}

\* The events the host can deliver next: timings are non-decreasing and below
\* the buffer length. The value an event carries (velocity, pressure, gain,
\* pan) is opaque to the code modelled here: the n-th event of a run carries
\* the value n, so that any two queue entries differ; an event without a value,
\* and NoteOff, whose velocity the code ignores, carries 0.
EventsFrom(lo, total, n) ==
    {[kind |-> k, timing |-> t, channel |-> c, note |-> m,
      value |-> IF k \in ValueKinds THEN n ELSE 0] :
        k \in host.kinds, t \in {u \in host.timings : lo <= u /\ u < total},
        c \in host.channels, m \in Notes}

\* lib.rs:140, 220: context.next_event().
ContextNextEvent(lo, total, n) ==
    IF n < host.events THEN {None} \cup EventsFrom(lo, total, n + 1) ELSE {None}

\* The host of the main specification: buffers of up to MaxSamples samples at
\* one sample rate, and up to MaxEvents events of every kind at every timing.
MainHost ==
    [totals |-> 0..MaxSamples,
     rates |-> SampleRates,
     kinds |-> EventKinds,
     channels |-> Channels,
     timings |-> 0..MaxSamples,
     events |-> MaxEvents]

\* lib.rs:37-57: the engine as constructed, before any call.
Constructed ==
    /\ voices = DefaultVoices
    /\ history = [i \in Indices |-> [rendered |-> FALSE, stopped |-> "never"]]
    /\ pc = "idle"
    /\ num_samples = 0
    /\ sample_rate = 0
    /\ block_start = 0
    /\ block_end = 0
    /\ next_event = None
    /\ output = <<>>
    /\ vcur = NoVoice
    /\ sample_idx = 0
    /\ gain = 0
    /\ velocity = 0
    /\ pan = 0
    /\ sent = <<>>
    /\ delivered = <<>>
    /\ applied = <<>>
    /\ blocks = <<>>
    /\ active0 = {}
    /\ nEvents = 0
    /\ resets = 0

Init == Constructed /\ host = MainHost

\* Mutants of reset: it also rewinds the oscillators; it flips the flag.
ResetVoicesRewinding(vs) ==
    [i \in DOMAIN vs |-> [vs[i] EXCEPT !.active = FALSE, !.phase = 0]]
ResetVoicesToggling(vs) ==
    [i \in DOMAIN vs |-> [vs[i] EXCEPT !.active = ~vs[i].active]]

\* lib.rs:116-120
ResetVoices(vs) == [i \in DOMAIN vs |-> [vs[i] EXCEPT !.active = FALSE]]

Reset ==
    /\ pc = "idle"
    /\ voices' = ResetVoices(voices)
    /\ resets' = Min(resets + 1, 2)
    /\ history' = [i \in Indices |->
                      IF voices[i].active THEN [history[i] EXCEPT !.stopped = "reset"]
                      ELSE history[i]]
    /\ UNCHANGED host
    /\ UNCHANGED <<pc, num_samples, sample_rate, block_start, block_end, next_event,
                   output, vcur, sample_idx, gain, velocity, pan, sent, delivered,
                   applied, blocks, active0, nEvents>>

\* The samples rendered so far in this call: the cells no longer holding the
\* caller's content.
RenderedSamples == {s \in DOMAIN output[0] : output[0][s] # <<Stale>>}

\* lib.rs:122-143: the entry of process up to the first test of the while loop.
ProcessBegin ==
    /\ pc = "idle"
    /\ \E total \in host.totals, rate \in host.rates :
        \E ev \in ContextNextEvent(0, total, nEvents) :
            /\ num_samples' = total
            /\ sample_rate' = rate
            /\ output' = [c \in 0..1 |-> [s \in 0..(total - 1) |-> <<Stale>>]]
            /\ next_event' = ev
            /\ delivered' = IF ev = None THEN <<>> ELSE <<ev>>
            /\ nEvents' = IF ev = None THEN nEvents ELSE nEvents + 1
            /\ block_start' = 0
            /\ block_end' = Min(MAX_BLOCK_SIZE, total)
            /\ pc' = IF 0 < total THEN "events" ELSE "done"
    /\ active0' = {i \in Indices : voices[i].active}
    /\ resets' = 0
    /\ UNCHANGED <<voices, vcur, sample_idx, gain, velocity, pan, sent, applied, blocks,
                   history, host>>

\* Mutant of start_voice: the oscillator is rewound.
start_voice_rewinding(vs, channel, note) ==
    [vs EXCEPT ![VoiceIndex(channel, note)] =
        [@ EXCEPT !.active = TRUE, !.velocities = <<>>, !.pannings = <<>>, !.gains = <<>>,
                  !.phase = 0]]

\* Mutant of start_voice: the pan queue is not cleared.
start_voice_keeps_pan(vs, channel, note) ==
    [vs EXCEPT ![VoiceIndex(channel, note)] =
        [@ EXCEPT !.active = TRUE, !.velocities = <<>>, !.gains = <<>>]]

\* lib.rs:307-325
start_voice(vs, channel, note) ==
    [vs EXCEPT ![VoiceIndex(channel, note)] =
        [@ EXCEPT !.active = TRUE, !.velocities = <<>>, !.pannings = <<>>, !.gains = <<>>]]

\* Mutant of the notification: the voice id leaves out the factor 128.
VoiceTerminatedShortId(sample_offset, channel, note) ==
    [timing |-> sample_offset,
     voice_id |-> channel + note,
     channel |-> channel,
     note |-> note]

\* lib.rs:338-343: the notification stop_voices sends.
VoiceTerminated(sample_offset, channel, note) ==
    [timing |-> sample_offset,
     voice_id |-> (channel * 128) + note,
     channel |-> channel,
     note |-> note]

\* Mutant of stop_voices: the phase is rewound but the voice stays active.
stop_voices_still_active(vs, channel, note) ==
    [vs EXCEPT ![VoiceIndex(channel, note)] = [@ EXCEPT !.phase = 0]]

\* Mutant of stop_voices: the phase is left where it is.
stop_voices_keeps_phase(vs, channel, note) ==
    [vs EXCEPT ![VoiceIndex(channel, note)] = [@ EXCEPT !.active = FALSE]]

\* lib.rs:326-347: the pool after stop_voices.
stop_voices(vs, channel, note) ==
    [vs EXCEPT ![VoiceIndex(channel, note)] = [@ EXCEPT !.active = FALSE, !.phase = 0]]

\* Mutant of the guard: every event of the current sub-block is applied at
\* the start of the sub-block.
EventIsNowOrInBlock(kind) ==
    /\ pc = "events"
    /\ next_event # None
    /\ next_event.kind = kind
    /\ next_event.timing < block_end

\* lib.rs:153: the guard of the first match arm.
EventIsNow(kind) ==
    /\ pc = "events"
    /\ next_event # None
    /\ next_event.kind = kind
    /\ next_event.timing <= block_start

\* lib.rs:220: the event is consumed and the next one is fetched.
FetchNext ==
    /\ \E ev \in ContextNextEvent(next_event.timing, num_samples, nEvents) :
        /\ next_event' = ev
        /\ delivered' = IF ev = None THEN delivered ELSE Append(delivered, ev)
        /\ nEvents' = IF ev = None THEN nEvents ELSE nEvents + 1
    /\ applied' = Append(applied, [ev |-> next_event, at |-> block_start,
                                   rendered |-> RenderedSamples])
    /\ UNCHANGED <<pc, num_samples, sample_rate, block_start, block_end, output, vcur,
                   sample_idx, gain, velocity, pan, blocks, active0, resets, host>>

\* Mutant of the NoteOn arm: the voice is started without an initial velocity.
NoteOnWithoutVelocity ==
    /\ EventIsNow("NoteOn")
    /\ voices' = start_voice(voices, next_event.channel, next_event.note)
    /\ UNCHANGED <<sent, history>>
    /\ FetchNext

\* lib.rs:157-166
NoteOn ==
    /\ EventIsNow("NoteOn")
    /\ LET e == next_event
           started == start_voice(voices, e.channel, e.note)
       IN voices' = [started EXCEPT ![VoiceIndex(e.channel, e.note)].velocities =
                        Append(@, <<e.timing, e.value>>)]
    /\ UNCHANGED <<sent, history>>
    /\ FetchNext

\* Mutant of the PolyPressure arm: the voice is also activated.
PolyPressureActivating ==
    /\ EventIsNow("PolyPressure")
    /\ LET e == next_event
       IN voices' = [voices EXCEPT ![(e.channel * 128) + e.note] =
                        [@ EXCEPT !.active = TRUE,
                                  !.velocities = Append(@, <<e.timing, e.value>>)]]
    /\ UNCHANGED <<sent, history>>
    /\ FetchNext

\* lib.rs:167-177
PolyPressure ==
    /\ EventIsNow("PolyPressure")
    /\ LET e == next_event
       IN voices' = [voices EXCEPT ![(e.channel * 128) + e.note].velocities =
                        Append(@, <<e.timing, e.value>>)]
    /\ UNCHANGED <<sent, history>>
    /\ FetchNext

\* lib.rs:178-188
PolyVolume ==
    /\ EventIsNow("PolyVolume")
    /\ LET e == next_event
       IN voices' = [voices EXCEPT ![(e.channel * 128) + e.note].gains =
                        Append(@, <<e.timing, e.value>>)]
    /\ UNCHANGED <<sent, history>>
    /\ FetchNext

\* lib.rs:189-199
PolyPan ==
    /\ EventIsNow("PolyPan")
    /\ LET e == next_event
       IN voices' = [voices EXCEPT ![(e.channel * 128) + e.note].pannings =
                        Append(@, <<e.timing, e.value>>)]
    /\ UNCHANGED <<sent, history>>
    /\ FetchNext

\* Mutant of the NoteOff arm: a voice that is not active is left alone.
NoteOffIfActive ==
    /\ EventIsNow("NoteOff")
    /\ LET e == next_event
       IN IF voices[VoiceIndex(e.channel, e.note)].active
          THEN /\ sent' = Append(sent, VoiceTerminated(e.timing, e.channel, e.note))
               /\ voices' = stop_voices(voices, e.channel, e.note)
               /\ history' = [history EXCEPT
                                 ![VoiceIndex(e.channel, e.note)].stopped = "event"]
          ELSE UNCHANGED <<sent, voices, history>>
    /\ FetchNext

\* lib.rs:200-208
NoteOff ==
    /\ EventIsNow("NoteOff")
    /\ LET e == next_event
       IN /\ sent' = Append(sent, VoiceTerminated(e.timing, e.channel, e.note))
          /\ voices' = stop_voices(voices, e.channel, e.note)
          /\ history' = [history EXCEPT ![VoiceIndex(e.channel, e.note)].stopped = "event"]
    /\ FetchNext

\* lib.rs:209-216
Choke ==
    /\ EventIsNow("Choke")
    /\ LET e == next_event
       IN /\ sent' = Append(sent, VoiceTerminated(e.timing, e.channel, e.note))
          /\ voices' = stop_voices(voices, e.channel, e.note)
          /\ history' = [history EXCEPT ![VoiceIndex(e.channel, e.note)].stopped = "event"]
    /\ FetchNext

\* lib.rs:217: every other event is consumed without effect.
OtherEvent ==
    /\ EventIsNow("PolyTuning")
    /\ UNCHANGED <<voices, sent, history>>
    /\ FetchNext

\* Mutant of the cut: the event is seen but the block keeps its end.
CutBlockKeepsEnd ==
    /\ pc = "events"
    /\ next_event # None
    /\ ~(next_event.timing <= block_start)
    /\ next_event.timing < block_end
    /\ pc' = "fill"
    /\ UNCHANGED <<voices, num_samples, sample_rate, block_start, block_end, next_event,
                   output, vcur, sample_idx, gain, velocity, pan, sent, delivered, applied,
                   blocks, active0, nEvents, resets, history, host>>

\* lib.rs:224-227: the block is cut short at the next event.
CutBlock ==
    /\ pc = "events"
    /\ next_event # None
    /\ ~(next_event.timing <= block_start)
    /\ next_event.timing < block_end
    /\ block_end' = next_event.timing
    /\ pc' = "fill"
    /\ UNCHANGED <<voices, num_samples, sample_rate, block_start, next_event, output, vcur,
                   sample_idx, gain, velocity, pan, sent, delivered, applied, blocks,
                   active0, nEvents, resets, history, host>>

\* lib.rs:228
EventsBreak ==
    /\ pc = "events"
    /\ \/ next_event = None
       \/ /\ next_event # None
          /\ ~(next_event.timing <= block_start)
          /\ ~(next_event.timing < block_end)
    /\ pc' = "fill"
    /\ UNCHANGED <<voices, num_samples, sample_rate, block_start, block_end, next_event,
                   output, vcur, sample_idx, gain, velocity, pan, sent, delivered, applied,
                   blocks, active0, nEvents, resets, history, host>>

\* Mutant of the fill: the first sample of the sub-block keeps its content.
FillAfterFirst(chan) ==
    [s \in DOMAIN chan |-> IF block_start < s /\ s < block_end THEN <<>> ELSE chan[s]]

\* lib.rs:233-234: slice.fill(0.0) over block_start..block_end.
Fill(chan) ==
    [s \in DOMAIN chan |-> IF block_start <= s /\ s < block_end THEN <<>> ELSE chan[s]]

\* lib.rs:238-241: the next voice the loop does not skip, after voice i
\* (after no voice when i = NoVoice).
NextActiveVoice(i) ==
    LET later == {j \in Indices : (i = NoVoice \/ j > i) /\ voices[j].active}
    IN IF later = {} THEN NoVoice
       ELSE CHOOSE j \in later : \A k \in later : j <= k

\* lib.rs:233-238: silence, then the voice loop starts before its first voice.
FillSilence ==
    /\ pc = "fill"
    /\ output' = [c \in 0..1 |-> Fill(output[c])]
    /\ blocks' = Append(blocks, <<block_start, block_end>>)
    /\ vcur' = NoVoice
    /\ sample_idx' = block_start
    /\ pc' = "render"
    /\ UNCHANGED <<voices, num_samples, sample_rate, block_start, block_end, next_event,
                   gain, velocity, pan, sent, delivered, applied, active0, nEvents, resets,
                   history, host>>

\* lib.rs:238, 243: the next (voice, sample) pair of the two nested loops, when
\* (vcur, sample_idx) is the pair just rendered; NoVoice when the loops are over.
NextPosition ==
    IF vcur # NoVoice /\ sample_idx + 1 < block_end
    THEN <<vcur, sample_idx + 1>>
    ELSE IF block_start < block_end
         THEN <<NextActiveVoice(vcur), block_start>>
         ELSE <<NoVoice, block_start>>

\* lib.rs:244-254: one of the three trimming loops.
RECURSIVE Trim(_, _)
Trim(q, idx) ==
    IF Len(q) > 1 /\ q[2][1] > idx THEN Trim(Tail(q), idx) ELSE q

\* lib.rs:256-272
Front(q, default) == IF q # <<>> THEN q[1][2] ELSE default

\* Mutant of the wrap: the comparison is strict.
AdvancePhaseWrapsLate(phase, frequency, rate) ==
    LET p == phase + ((frequency * One) \div rate)
    IN IF p > One THEN p - One ELSE p

\* lib.rs:285-288
AdvancePhase(phase, frequency, rate) ==
    LET p == phase + ((frequency * One) \div rate)
    IN IF p >= One THEN p - One ELSE p

\* lib.rs:292-293
Accumulate(out, idx, term) ==
    [c \in 0..1 |-> [out[c] EXCEPT ![idx] = Append(@, term)]]

\* lib.rs:243-294: one iteration of the sample loop of an active voice. The
\* state it leaves is the state at the end of that iteration: the queues as
\* trimmed, and gain, velocity and pan as resolved for the sample.
RenderSample ==
    /\ pc = "render"
    /\ NextPosition[1] # NoVoice
    /\ LET i == NextPosition[1]
           idx == NextPosition[2]
           v == voices[i]
           gs == Trim(v.gains, idx)
           vs == Trim(v.velocities, idx)
           ps == Trim(v.pannings, idx)
       IN /\ voices' = [voices EXCEPT ![i] =
                           [@ EXCEPT !.gains = gs, !.velocities = vs, !.pannings = ps,
                                     !.phase = AdvancePhase(@, v.frequency, sample_rate)]]
          /\ gain' = Front(gs, 1)
          /\ velocity' = Front(vs, 1)
          /\ pan' = Front(ps, 0)
          /\ output' = Accumulate(output, idx, i)
          /\ vcur' = i
          /\ sample_idx' = idx
          /\ history' = [history EXCEPT ![i].rendered = TRUE]
    /\ UNCHANGED <<pc, num_samples, sample_rate, block_start, block_end, next_event, sent,
                   delivered, applied, blocks, active0, nEvents, resets, host>>

\* Mutant of the advance: the next sub-block is not clamped to the buffer.
AdvanceBlockUnclamped ==
    /\ pc = "render"
    /\ NextPosition[1] = NoVoice
    /\ block_start' = block_end
    /\ block_end' = block_end + MAX_BLOCK_SIZE
    /\ pc' = IF block_end < num_samples THEN "events" ELSE "done"
    /\ vcur' = NoVoice
    /\ sample_idx' = 0
    /\ gain' = 0
    /\ velocity' = 0
    /\ pan' = 0
    /\ UNCHANGED <<voices, num_samples, sample_rate, next_event, output, sent, delivered,
                   applied, blocks, active0, nEvents, resets, history, host>>

\* lib.rs:298-299, and the test of the while loop at lib.rs:143
AdvanceBlock ==
    /\ pc = "render"
    /\ NextPosition[1] = NoVoice
    /\ block_start' = block_end
    /\ block_end' = Min(block_end + MAX_BLOCK_SIZE, num_samples)
    /\ pc' = IF block_end < num_samples THEN "events" ELSE "done"
    /\ vcur' = NoVoice
    /\ sample_idx' = 0
    /\ gain' = 0
    /\ velocity' = 0
    /\ pan' = 0
    /\ UNCHANGED <<voices, num_samples, sample_rate, next_event, output, sent, delivered,
                   applied, blocks, active0, nEvents, resets, history, host>>

\* lib.rs:302: process returns; its locals and the call's context go away.
ProcessReturn ==
    /\ pc = "done"
    /\ pc' = "idle"
    /\ num_samples' = 0
    /\ sample_rate' = 0
    /\ block_start' = 0
    /\ block_end' = 0
    /\ next_event' = None
    /\ output' = <<>>
    /\ sent' = <<>>
    /\ delivered' = <<>>
    /\ applied' = <<>>
    /\ blocks' = <<>>
    /\ active0' = {}
    /\ UNCHANGED <<voices, vcur, sample_idx, gain, velocity, pan, nEvents, resets, history, host>>

(***************************************************************************)
(* Properties.                                                             *)
(***************************************************************************)
Queues(v) == <<v.gains, v.velocities, v.pannings>>

\* C1: no sub-block that is rendered holds the timestamp of an event not yet
\* applied strictly between its start and its end, and when the call is over
\* every event's timestamp is the start of a rendered sub-block.
C1_BlocksSplitAtEvents ==
    /\ (pc \in {"fill", "render"} /\ next_event # None) =>
          ~(block_start < next_event.timing /\ next_event.timing < block_end)
    /\ pc = "done" =>
          \A k \in 1..Len(delivered) :
              \E b \in 1..Len(blocks) : blocks[b][1] = delivered[k].timing

\* A call is over in which an event at a timing above 0 split the buffer.
C1_Witness ==
    /\ pc = "done"
    /\ Len(blocks) >= 2
    /\ \E k \in 1..Len(delivered) : delivered[k].timing = 1

\* C2: the events applied are, in order, the events delivered; an event with
\* timing t is applied when exactly the samples 0..t-1 have been rendered; the
\* entries of every queue are in delivery order; and when the call is over no
\* event is left.
C2_EventsAppliedInOrderOnTime ==
    /\ Len(applied) <= Len(delivered)
    /\ \A k \in 1..Len(applied) :
          /\ applied[k].ev = delivered[k]
          /\ applied[k].rendered = 0..(delivered[k].timing - 1)
    /\ \A i \in Indices : \A n \in 1..3 :
          LET q == Queues(voices[i])[n]
          IN \A a, b \in 1..Len(q) : a < b => q[a][2] < q[b][2]
    /\ pc = "done" => (next_event = None /\ Len(applied) = Len(delivered))

\* A call is over in which two events with the same timing, above 0, went to
\* the same queue of the same voice.
C2_Witness ==
    /\ pc = "done"
    /\ Len(applied) = 2
    /\ applied[1].ev.timing = 1
    /\ applied[2].ev.timing = 1
    /\ \E i \in Indices : Len(voices[i].velocities) = 2

\* The voices active once the events evs have been applied, in order, to a pool
\* whose active voices are act.
RECURSIVE ActiveAfter(_, _)
ActiveAfter(act, evs) ==
    IF evs = <<>> THEN act
    ELSE LET e == Head(evs)
             i == (e.channel * 128) + e.note
         IN ActiveAfter(
                CASE e.kind = "NoteOn" -> act \cup {i}
                  [] e.kind \in {"NoteOff", "Choke"} -> act \ {i}
                  [] OTHER -> act,
                Tail(evs))

ActiveAt(s) == ActiveAfter(active0, SelectSeq(delivered, LAMBDA e : e.timing <= s))

\* C3: when the call is over, each cell of each channel holds exactly one term
\* of each voice that is active once the events with timing <= s are applied,
\* and nothing else: nothing of what the buffer held before, no term twice.
C3_OutputIsSumOfActiveVoices ==
    pc = "done" =>
        \A c \in 0..1 : \A s \in 0..(num_samples - 1) :
            LET cell == output[c][s]
            IN /\ \A a, b \in 1..Len(cell) : a # b => cell[a] # cell[b]
               /\ {cell[a] : a \in 1..Len(cell)} = ActiveAt(s)

\* A call is over in which two voices sound together at one sample and no voice
\* at another.
C3_Witness ==
    /\ pc = "done"
    /\ \E s, t \in 0..(num_samples - 1) :
          /\ Len(output[0][s]) = 2
          /\ output[1][t] = <<>>

\* The samples at which voice i has been rendered in this call.
RenderedBy(i) ==
    {s \in DOMAIN output[0] : \E a \in 1..Len(output[0][s]) : output[0][s][a] = i}

\* The call's stream addresses voice i with exactly two events, adjacent in the
\* stream: a NoteOn at timing t and then a NoteOff at timing t + 1.
NoteOnThenOff(i, t) ==
    /\ \E k \in 1..(Len(delivered) - 1) :
          /\ delivered[k].kind = "NoteOn"
          /\ delivered[k].timing = t
          /\ VoiceIndex(delivered[k].channel, delivered[k].note) = i
          /\ delivered[k + 1].kind = "NoteOff"
          /\ delivered[k + 1].timing = t + 1
          /\ VoiceIndex(delivered[k + 1].channel, delivered[k + 1].note) = i
    /\ Cardinality({k \in 1..Len(delivered) :
                       VoiceIndex(delivered[k].channel, delivered[k].note) = i}) = 2

LastEffective(q, s) ==
    LET past == {k \in 1..Len(q) : q[k][1] <= s}
    IN q[CHOOSE k \in past : \A j \in past : j <= k]

\* C5: after the trimming for a rendered sample s of a voice, the front of each
\* of its queues is the entry made effective last at or before s, and the value
\* resolved from the queue is the value of that entry.
C5_FrontIsMostRecentlyEffective ==
    (pc = "render" /\ vcur # NoVoice) =>
        \A n \in 1..3 :
            LET q == Queues(voices[vcur])[n]
            IN (\E k \in 1..Len(q) : q[k][1] <= sample_idx) =>
                  /\ q[1] = LastEffective(q, sample_idx)
                  /\ <<gain, velocity, pan>>[n] = LastEffective(q, sample_idx)[2]

\* C6: at every rendered sample s, no queue of any voice holds more than one
\* entry with a timestamp at or before s.
C6_AtMostOnePastEntry ==
    (pc = "render" /\ vcur # NoVoice) =>
        \A i \in Indices : \A n \in 1..3 :
            LET q == Queues(voices[i])[n]
            IN Cardinality({k \in 1..Len(q) : q[k][1] <= sample_idx}) <= 1

\* C7: every inactive voice has its three queues empty and its phase at 0.
C7_InactiveVoicesAreClean ==
    \A i \in Indices :
        ~voices[i].active =>
            /\ voices[i].gains = <<>>
            /\ voices[i].velocities = <<>>
            /\ voices[i].pannings = <<>>
            /\ voices[i].phase = 0

\* The notification that names the voice at index i, with the given timing.
NotificationOf(i, timing) ==
    [timing |-> timing,
     voice_id |-> (voices[i].channel * 128) + voices[i].note,
     channel |-> voices[i].channel,
     note |-> voices[i].note]

\* C8, as claimed: every step of the engine that takes a voice from active to
\* inactive sends one notification that names that voice.
C8_EveryDeactivationNotifies ==
    [][\A i \in Indices :
          (voices[i].active /\ ~voices'[i].active) =>
              /\ Len(sent') = Len(sent) + 1
              /\ \E t \in 0..MaxSamples : sent'[Len(sent')] = NotificationOf(i, t)]_vars

\* C8, as amended: every step of a process call that takes a voice from active
\* to inactive is the application of a NoteOff or Choke and sends one
\* notification with the timing of that event and the index, channel and note
\* of the voice; a reset that does so sends nothing.
C8_EventDeactivationNotifies ==
    [][\A i \in Indices :
          (voices[i].active /\ ~voices'[i].active) =>
              IF pc = "idle"
              THEN sent' = sent
              ELSE /\ next_event # None
                   /\ next_event.kind \in {"NoteOff", "Choke"}
                   /\ sent' = Append(sent, NotificationOf(i, next_event.timing))]_vars

\* A voice of channel 1 that was active when the call began has been stopped
\* by an event of the call, and the notification is out.
C8_Witness ==
    /\ pc # "idle"
    /\ sent # <<>>
    /\ sent[1].channel = 1
    /\ sent[1].voice_id \in active0
    /\ ~voices[sent[1].voice_id].active

\* C9: a reset leaves every voice inactive and otherwise as it was (phase,
\* frequency, channel, note and the three queues), and sends no notification.
C9_ResetFrame ==
    [][(pc = "idle" /\ pc' = "idle") =>
          /\ \A i \in Indices :
                /\ ~voices'[i].active
                /\ voices'[i].phase = voices[i].phase
                /\ voices'[i].frequency = voices[i].frequency
                /\ voices'[i].channel = voices[i].channel
                /\ voices'[i].note = voices[i].note
                /\ Queues(voices'[i]) = Queues(voices[i])
          /\ sent' = sent]_vars

\* A reset has just stopped a voice in mid-cycle with a queue that is not empty.
C9_Witness ==
    /\ pc = "idle"
    /\ resets = 1
    /\ \E i \in Indices :
          /\ ~voices[i].active
          /\ voices[i].phase # 0
          /\ voices[i].velocities # <<>>

\* C10: a reset that follows a reset changes nothing, and after either every
\* voice is inactive; it is enabled whatever the voices are.
C10_ResetIdempotent ==
    [][(pc = "idle" /\ pc' = "idle") =>
          /\ \A i \in Indices : ~voices'[i].active
          /\ resets >= 1 => voices' = voices]_vars

\* Two resets in a row have been made on a pool that has been played.
C10_Witness ==
    /\ pc = "idle"
    /\ resets = 2
    /\ \E i \in Indices : voices[i].velocities # <<>>

\* A step that applies an event of one of the given kinds.
AppliedStep(kinds) ==
    /\ pc = "events"
    /\ next_event # None
    /\ next_event.kind \in kinds
    /\ Len(applied') = Len(applied) + 1

\* The voices other than i are as they were.
OthersUnchanged(i) == \A j \in Indices : j # i => voices'[j] = voices[j]

\* C13: a step that applies a NoteOn leaves the addressed voice active, its
\* gain and pan queues empty and its velocity queue with the one entry
\* (timing, velocity), whatever the voice was before; no other voice changes.
C13_NoteOnEffect ==
    [][AppliedStep({"NoteOn"}) =>
          LET e == next_event
              i == (e.channel * 128) + e.note
          IN /\ voices'[i].active
             /\ voices'[i].gains = <<>>
             /\ voices'[i].pannings = <<>>
             /\ voices'[i].velocities = << <<e.timing, e.value>> >>
             /\ OthersUnchanged(i)]_vars

\* A NoteOn has been applied to a voice whose pan queue was not empty.
C13_Witness ==
    /\ Len(applied) = 2
    /\ applied[1].ev.kind = "PolyPan"
    /\ applied[2].ev.kind = "NoteOn"
    /\ applied[1].ev.channel = applied[2].ev.channel
    /\ LET i == VoiceIndex(applied[2].ev.channel, applied[2].ev.note)
       IN voices[i].active /\ voices[i].pannings = <<>>

\* C14: a step that applies a NoteOff or a Choke leaves the addressed voice
\* inactive with phase 0, sends one notification carrying the event's timing
\* and the voice's index, channel and note, and changes no other voice.
C14_StopEffect ==
    [][AppliedStep({"NoteOff", "Choke"}) =>
          LET e == next_event
              i == (e.channel * 128) + e.note
          IN /\ ~voices'[i].active
             /\ voices'[i].phase = 0
             /\ sent' = Append(sent, [timing |-> e.timing,
                                      voice_id |-> (e.channel * 128) + e.note,
                                      channel |-> e.channel,
                                      note |-> e.note])
             /\ OthersUnchanged(i)]_vars

\* A Choke at timing 1 has stopped a voice that was started at timing 0 and
\* rendered once in between.
C14_Witness ==
    /\ Len(applied) = 2
    /\ applied[1].ev.kind = "NoteOn"
    /\ applied[1].ev.timing = 0
    /\ applied[2].ev.kind = "Choke"
    /\ applied[2].ev.timing = 1
    /\ applied[1].ev.channel = applied[2].ev.channel
    /\ LET i == VoiceIndex(applied[2].ev.channel, applied[2].ev.note)
       IN ~voices[i].active /\ voices[i].phase = 0 /\ Len(sent) = 1

\* C15: a step that applies a PolyPressure, PolyVolume or PolyPan appends the
\* entry (timing, value) to the velocity, gain or pan queue of the addressed
\* voice and changes nothing else of the pool, and sends nothing.
C15_PolyEffect ==
    [][AppliedStep({"PolyPressure", "PolyVolume", "PolyPan"}) =>
          LET e == next_event
              i == (e.channel * 128) + e.note
              entry == <<e.timing, e.value>>
          IN /\ voices'[i] =
                   CASE e.kind = "PolyPressure" ->
                          [voices[i] EXCEPT !.velocities = Append(@, entry)]
                     [] e.kind = "PolyVolume" ->
                          [voices[i] EXCEPT !.gains = Append(@, entry)]
                     [] e.kind = "PolyPan" ->
                          [voices[i] EXCEPT !.pannings = Append(@, entry)]
             /\ OthersUnchanged(i)
             /\ sent' = sent]_vars

\* A PolyPressure has been applied to a voice that was not active, and the
\* voice is still not active.
C15_Witness ==
    /\ Len(applied) = 1
    /\ applied[1].ev.kind = "PolyPressure"
    /\ LET i == VoiceIndex(applied[1].ev.channel, applied[1].ev.note)
       IN /\ i \notin active0
          /\ ~voices[i].active
          /\ voices[i].velocities = << <<applied[1].ev.timing, applied[1].ev.value>> >>

\* The indices of the whole pool of lib.rs:41-54.
FullIndices == {VoiceIndex(c, n) : c \in 0..MAX_CHANNEL, n \in 0..MAX_NOTE}

\* The whole pool has 17 * 128 voices, at the indices 0..2175.
FullPoolIsDense ==
    /\ Cardinality(FullIndices) = 17 * 128
    /\ FullIndices = 0..2175

\* C16: the pool of 17 channels by 128 notes has 17 * 128 = 2176 voices at the
\* indices 0..2175; the pool of the model keeps its set of voices, and the
\* voice at index channel * 128 + note stores that channel and that note, so
\* that the assertions of start_voice and stop_voices hold.
C16_PoolIdentity ==
    /\ FullPoolIsDense
    /\ DOMAIN voices = Indices
    /\ \A c \in Channels : \A n \in Notes :
          /\ voices[VoiceIndex(c, n)].channel = c
          /\ voices[VoiceIndex(c, n)].note = n

\* Voices of channel 1 have been started and stopped.
C16_Witness ==
    /\ Len(applied) = 2
    /\ applied[1].ev.kind = "NoteOn"
    /\ applied[2].ev.kind = "NoteOff"
    /\ applied[1].ev.channel = 1
    /\ applied[2].ev.channel = 1

\* The events of this call, applied so far, that put an entry into queue n
\* (1 gain, 2 velocity, 3 pan) of voice i.
EntriesOfCall(i, n) ==
    Cardinality({k \in 1..Len(applied) :
        /\ VoiceIndex(applied[k].ev.channel, applied[k].ev.note) = i
        /\ applied[k].ev.kind \in
              <<{"PolyVolume"}, {"NoteOn", "PolyPressure"}, {"PolyPan"}>>[n]})

\* C17: no queue grows with the number of calls: when a call is over, a queue
\* holds at most one entry of earlier calls beside the entries of this call,
\* the older ones having been trimmed from the head.
C17_QueuesDoNotGrowAcrossCalls ==
    pc = "done" =>
        \A i \in Indices : \A n \in 1..3 :
            Len(Queues(voices[i])[n]) <= 1 + EntriesOfCall(i, n)

\* C18: every active voice has a velocity queue that is not empty, and the
\* velocity resolved for a rendered sample is the front of that queue, never
\* the default.
C18_ActiveVoiceHasVelocity ==
    /\ \A i \in Indices : voices[i].active => voices[i].velocities # <<>>
    /\ (pc = "render" /\ vcur # NoVoice) =>
          /\ voices[vcur].velocities # <<>>
          /\ velocity = voices[vcur].velocities[1][2]

\* A sample has been rendered for which the trimming removed the entry of the
\* NoteOn and left the one entry of a later PolyPressure.
C18_Witness ==
    /\ pc = "render"
    /\ vcur # NoVoice
    /\ vcur \in active0
    /\ voices[vcur].velocities = << <<1, 2>> >>
    /\ velocity = 2

\* C19: the notifications sent in a call are as many as the NoteOff and Choke
\* events applied in it, whether the voices they address were active or not.
C19_OneNotificationPerStop ==
    Len(sent) =
        Cardinality({k \in 1..Len(applied) : applied[k].ev.kind \in {"NoteOff", "Choke"}})

\* A NoteOff for a voice that was not active has been applied and notified.
C19_Witness ==
    /\ Len(applied) = 1
    /\ applied[1].ev.kind = "NoteOff"
    /\ VoiceIndex(applied[1].ev.channel, applied[1].ev.note) \notin active0
    /\ Len(sent) = 1

\* The step renders a sample of voice i.
RenderStep(i) == pc = "render" /\ NextPosition[1] = i

\* The sample about to be rendered is the first one of voice i since a NoteOn
\* of this call found it inactive.
StartsRendering(i) ==
    LET evs == [k \in 1..Len(applied) |-> applied[k].ev]
    IN \E k \in 1..Len(applied) :
          /\ applied[k].at = NextPosition[2]
          /\ evs[k].kind = "NoteOn"
          /\ VoiceIndex(evs[k].channel, evs[k].note) = i
          /\ i \notin ActiveAfter(active0, SubSeq(evs, 1, k - 1))

\* A NoteOn changes no voice's phase, and neither does reset.
NoteOnAndResetKeepPhase ==
    (AppliedStep({"NoteOn"}) \/ (pc = "idle" /\ pc' = "idle")) =>
        \A i \in Indices : voices'[i].phase = voices[i].phase

\* C20 as stated: a NoteOn changes no phase, reset changes no phase, and a voice
\* whose first sample since it was inactive is rendered from phase 0 was last
\* deactivated by a NoteOff or a Choke, or was never rendered before.
C20_StartsAtZeroOnlyAfterStop ==
    [][/\ NoteOnAndResetKeepPhase
       /\ \A i \in Indices :
             (RenderStep(i) /\ StartsRendering(i) /\ voices[i].phase = 0) =>
                 (history[i].stopped = "event" \/ ~history[i].rendered)]_vars

\* C20, amended: a NoteOn changes no phase, reset changes no phase, and a step
\* that changes the phase of a voice either renders a sample of that voice,
\* advancing the phase, or applies a NoteOff or a Choke that addresses it,
\* setting the phase to 0. A voice stopped by reset therefore resumes from the
\* phase it had, which is 0 when the oscillator had wrapped to exactly 0.
C20_PhaseChangesOnlyByRenderOrStop ==
    [][/\ NoteOnAndResetKeepPhase
       /\ \A i \in Indices :
             voices'[i].phase # voices[i].phase =>
                 \/ /\ RenderStep(i)
                    /\ voices'[i].phase =
                           AdvancePhase(voices[i].phase, voices[i].frequency, sample_rate)
                 \/ /\ AppliedStep({"NoteOff", "Choke"})
                    /\ VoiceIndex(next_event.channel, next_event.note) = i
                    /\ voices'[i].phase = 0]_vars

\* A voice that reset had stopped has rendered its first sample after a NoteOn,
\* and it did not start from phase 0.
C20_Witness ==
    /\ pc = "render"
    /\ vcur \in Indices
    /\ history[vcur].stopped = "reset"
    /\ vcur \notin active0
    /\ Len(applied) = 1
    /\ applied[1].ev.kind = "NoteOn"
    /\ VoiceIndex(applied[1].ev.channel, applied[1].ev.note) = vcur
    /\ sample_idx = applied[1].at
    /\ voices[vcur].phase # AdvancePhase(0, voices[vcur].frequency, sample_rate)

Next ==
    \/ Reset
    \/ ProcessBegin
    \/ NoteOn
    \/ PolyPressure
    \/ PolyVolume
    \/ PolyPan
    \/ NoteOff
    \/ Choke
    \/ OtherEvent
    \/ CutBlock
    \/ EventsBreak
    \/ FillSilence
    \/ RenderSample
    \/ AdvanceBlock
    \/ ProcessReturn

Spec == Init /\ [][Next]_vars

(***************************************************************************)
(* The oscillators: a host that changes the sample rate from call to call, *)
(* so that the phase increment takes several values below 1, and that      *)
(* starts and stops the note of one channel.                               *)
(***************************************************************************)
PhaseRates == {3, 4, 8}

PhaseHost ==
    [totals |-> 0..MaxSamples,
     rates |-> PhaseRates,
     kinds |-> {"NoteOn", "NoteOff"},
     channels |-> {0},
     timings |-> 0..MaxSamples,
     events |-> MaxEvents]

InitPhase == Constructed /\ host = PhaseHost

NextPhase ==
    \/ Reset
    \/ ProcessBegin
    \/ NoteOn
    \/ NoteOff
    \/ CutBlock
    \/ EventsBreak
    \/ FillSilence
    \/ RenderSample
    \/ AdvanceBlock
    \/ ProcessReturn

SpecPhase == InitPhase /\ [][NextPhase]_vars

\* C11: the phase of every voice is in [0, 1) before and after every step, in
\* and between calls, and a step that renders a sample of a voice whose
\* frequency is below the sample rate adds the increment frequency/sample_rate
\* to its phase and subtracts 1 at most once, exactly when the sum reaches 1.
C11_PhaseInUnitInterval ==
    [][\A i \in Indices :
          /\ voices[i].phase \in 0..(One - 1)
          /\ voices'[i].phase \in 0..(One - 1)
          /\ (RenderStep(i) /\ voices[i].frequency < sample_rate) =>
                LET sum == voices[i].phase + ((voices[i].frequency * One) \div sample_rate)
                IN /\ sum < 2 * One
                   /\ sum < One => voices'[i].phase = sum
                   /\ sum >= One => voices'[i].phase = sum - One]_vars

\* A voice that was sounding when the call began has just rendered a sample in
\* which its phase wrapped, to a value other than 0.
C11_Witness ==
    /\ pc = "render"
    /\ vcur \in active0
    /\ voices[vcur].phase > 0
    /\ voices[vcur].phase < (voices[vcur].frequency * One) \div sample_rate

(***************************************************************************)
(* Long buffers: a host whose buffers are longer than MAX_BLOCK_SIZE, with *)
(* events at the start, inside and at the edge of the sub-blocks.          *)
(***************************************************************************)
LongTotals == {0, 1, MAX_BLOCK_SIZE + 1, (2 * MAX_BLOCK_SIZE) + 2}

LongTimings == {0, 1, MAX_BLOCK_SIZE, MAX_BLOCK_SIZE + 36}

LongHost ==
    [totals |-> LongTotals,
     rates |-> SampleRates,
     kinds |-> {"NoteOn", "PolyTuning"},
     channels |-> {0},
     timings |-> LongTimings,
     events |-> MaxEvents]

InitLong == Constructed /\ host = LongHost

\* The steps of a process call, from its entry to its return.
ProcessSteps ==
    \/ NoteOn
    \/ OtherEvent
    \/ CutBlock
    \/ EventsBreak
    \/ FillSilence
    \/ RenderSample
    \/ AdvanceBlock

NextLong ==
    \/ ProcessBegin
    \/ ProcessSteps
    \/ ProcessReturn

\* A call that has been entered keeps running; the host is free to make no
\* further call.
SpecLong == InitLong /\ [][NextLong]_vars /\ WF_vars(ProcessSteps)

\* The sub-blocks rendered so far in this call start at 0, are contiguous, and
\* each has between 1 and MAX_BLOCK_SIZE samples; when the call is over,
\* block_start is the buffer length and the sub-blocks cover the buffer.
BlocksPartitionBuffer ==
    /\ \A k \in 1..Len(blocks) :
          /\ blocks[k][2] - blocks[k][1] >= 1
          /\ blocks[k][2] - blocks[k][1] <= MAX_BLOCK_SIZE
          /\ blocks[k][1] = IF k = 1 THEN 0 ELSE blocks[k - 1][2]
    /\ pc = "done" =>
          /\ block_start = num_samples
          /\ IF num_samples = 0 THEN blocks = <<>>
             ELSE blocks # <<>> /\ blocks[Len(blocks)][2] = num_samples

\* C12: every process call that is entered returns, and the sub-blocks it
\* renders partition [0, num_samples): the first starts at 0, each has between
\* 1 and MAX_BLOCK_SIZE samples, each starts where the one before ends, and
\* at the return block_start equals num_samples.
C12_CallTerminatesAndPartitions ==
    /\ []BlocksPartitionBuffer
    /\ (pc # "idle") ~> (pc = "done")

\* A call over a buffer longer than two full sub-blocks is over, having
\* rendered a full sub-block and one that an event cut short.
C12_Witness ==
    /\ pc = "done"
    /\ num_samples > 2 * MAX_BLOCK_SIZE
    /\ \E k \in 1..Len(blocks) : blocks[k][2] - blocks[k][1] = MAX_BLOCK_SIZE
    /\ \E k \in 1..(Len(blocks) - 1) :
          /\ blocks[k][2] - blocks[k][1] < MAX_BLOCK_SIZE
          /\ \E j \in 1..Len(delivered) : delivered[j].timing = blocks[k][2]
====
